---- MODULE Spec2Model ----
(***************************************************************************)
(* Model of main.py, the "ow" Nextcloud command-line client.               *)
(*                                                                         *)
(* One invocation of the script is a sequential process: argument parsing, *)
(* the local existence check, the computation of the remote-relative path, *)
(* and then five sequential "if" tests on args.action, each of which may   *)
(* call getFileId, lockOrUnlock or sharePath.  The server and the local    *)
(* filesystem are the environment: what they answer is chosen with \E.     *)
(*                                                                         *)
(* Text is modelled as a sequence of tokens (a token is a run of           *)
(* characters), so that joining, substituting and slicing are computed on  *)
(* the text and not assumed.                                               *)
(***************************************************************************)
EXTENDS Integers, Sequences, FiniteSets, TLC

(* ------------------------------ bounds --------------------------------- *)

\* longest suffix (in tokens) below the sync root, runs of the whole script
MaxPathLen == 2
\* longest suffix (in tokens) below the sync root, path computation alone
MaxSuffixLen == 6
\* number of consecutive invocations of the script that are followed
MaxInvocations == 2

(* --------------------------- configuration ----------------------------- *)

nextcloudWebdavFileRoot == <<"remote.php/dav/files">>

nextcloudOcsShareApiRoot == <<"ocs/v2.php/apps/files_sharing/api/v1">>

nextcloudServer == <<"http://localhost:8080">>

localSyncFolder == <<"/", "home", "/", "user", "/", "Nextcloud">>

nextcloudUsername == <<"admin">>

nextcloudPassword == <<"admin">>

\* choices= of the positional argument 'action'
ActionChoices ==
  {"h", "html-link", "i", "internal-link", "l", "lock", "q", "quick-album", "u", "unlock"}

(* ------------------------------- text ---------------------------------- *)

\* Python's None, and what an f-string renders it as
None == "<None>"

Fmt(v) == IF v = None THEN "None" ELSE v

\* s[1:]
DropFirst(s) == IF s = <<>> THEN <<>> ELSE Tail(s)

\* s starts with pat at position i (1-based)
MatchAt(pat, s, i) ==
  /\ i + Len(pat) - 1 <= Len(s)
  /\ \A k \in 1..Len(pat) : s[i + k - 1] = pat[k]

\* re.sub(pat, repl, s) for a pattern without metacharacters: every
\* non-overlapping occurrence, leftmost first, is replaced
RECURSIVE ReSubFrom(_, _, _, _)
ReSubFrom(pat, repl, s, i) ==
  IF i > Len(s) THEN <<>>
  ELSE IF MatchAt(pat, s, i)
       THEN repl \o ReSubFrom(pat, repl, s, i + Len(pat))
       ELSE <<s[i]>> \o ReSubFrom(pat, repl, s, i + 1)

ReSub(pat, repl, s) == ReSubFrom(pat, repl, s, 1)

\* sep.join(parts), parts a sequence of texts
RECURSIVE Join(_, _)
Join(sep, parts) ==
  IF parts = <<>> THEN <<>>
  ELSE IF Len(parts) = 1 THEN parts[1]
  ELSE parts[1] \o sep \o Join(sep, Tail(parts))

(* ------------------------------- paths --------------------------------- *)

\* what follows the sync root in a resolved path below it: nothing, or
\* separators and names, starting with a separator, without an empty
\* component and without a trailing separator (os.path.realpath normalises)
WellFormedSuffix(s) ==
  /\ s # <<>> => s[1] = "/" /\ s[Len(s)] # "/"
  /\ \A k \in 1..(Len(s) - 1) : ~(s[k] = "/" /\ s[k + 1] = "/")

Suffixes(names, n) ==
  { s \in UNION { [1..k -> names \cup {"/"}] : k \in 0..n } : WellFormedSuffix(s) }

\* name tokens of the paths of whole runs, and of the path computation
RunNames == {"a"}

PathNames == {"home", "user", "Nextcloud", "a"}

\* line 76: relativePathOnly = re.sub(localSyncFolder, '', realpath)[1:]
RelativePath(rp) == DropFirst(ReSub(localSyncFolder, <<>>, rp))

\* line 80: _fileurl
FileUrl(rel) ==
  Join(<<"/">>, <<nextcloudServer, nextcloudWebdavFileRoot, nextcloudUsername, rel>>)

(* ----------------------------- responses ------------------------------- *)

\* status codes the HTTP client can hand back (100 itself is swallowed)
Statuses == {102, 200, 399, 400, 599, 600}

\* response.text: well-formed XML with its leaf elements (name, text), or
\* something the XML parser rejects
Malformed == [wellformed |-> FALSE, elems |-> {}]

Xml(es) == [wellformed |-> TRUE, elems |-> es]

NsFileId == "{http://owncloud.org/ns}fileid"

PropfindBodies ==
  {Malformed, Xml({})}
    \cup { Xml({<<NsFileId, t>>}) : t \in {"", "123", "42"} }
    \cup { Xml({<<"fileid", "123">>}) }

LockBodies == {Malformed, Xml({})}

ShareBodies ==
  {Malformed} \cup
  { Xml(u \cup f \cup t) :
      u \in {{}, {<<"url", "http://localhost:8080/s/tok1">>}},
      f \in {{}, {<<"file_source", "99">>}, {<<"file_source", "7">>}},
      t \in {{}, {<<"token", "tok1">>}, {<<"token", "tok2">>}} }

NoResponse == [status_code |-> 0, text |-> Malformed]

\* a truth test that lets client errors through
ResponseOkServerErrorsOnly(r) == r.status_code < 500

\* requests.Response.__bool__, i.e. Response.ok: raise_for_status() raises
\* for 400 <= status < 500 and for 500 <= status < 600, and for nothing else
ResponseOk(r) ==
  ~(400 <= r.status_code /\ r.status_code < 500)
    /\ ~(500 <= r.status_code /\ r.status_code < 600)

\* findtext with default='' : an absent element reads as empty text
FindTextDefaultEmpty(body, name) ==
  IF \E e \in body.elems : e[1] = name
  THEN (CHOOSE e \in body.elems : e[1] = name)[2]
  ELSE ""

\* root.findtext('.//name') on the parsed body
FindText(body, name) ==
  IF \E e \in body.elems : e[1] = name
  THEN (CHOOSE e \in body.elems : e[1] = name)[2]
  ELSE None

(* ------------------------------- state --------------------------------- *)

VARIABLES
  pc,               \* where the script is
  args,             \* argparse result: action, debug
  pathExists,       \* os.path.exists(args.path), the local filesystem's answer
  realpath,         \* line 72
  relativePathOnly, \* line 76
  fileurl,          \* line 80, _fileurl
  ret,              \* where the function being run returns to
  lockAction,       \* parameter 'action' of lockOrUnlock
  method,           \* local 'method' of lockOrUnlock
  rootedServerPath, \* parameter of sharePath
  response,         \* the response of the request of this invocation
  fileId,           \* what getFileId returned
  data,             \* what sharePath returned
  requests,         \* HTTP requests issued by this invocation, in order
  stdout,           \* lines written to standard output
  stderr,           \* messages written to the error stream
  exitCode,         \* exit status, -1 while running
  exitLine,         \* source line at which the process ended, 0 while running
  branches,         \* dispatch branches entered by this invocation, in order
  invocation,       \* number of this invocation
  lastLocked        \* file URL locked by the invocation just before, if it did

vars ==
  <<pc, args, pathExists, realpath, relativePathOnly, fileurl, ret, lockAction,
    method, rootedServerPath, response, fileId, data, requests, stdout, stderr,
    exitCode, exitLine, branches, invocation, lastLocked>>

NoUrl == <<>>

NoData ==
  [publicShareUrl |-> None, fileId |-> None,
   largeImageUrl |-> <<>>, previewImageUrl |-> <<>>]

\* a message on the error stream: its fixed text
\* (tag), the value it interpolates (arg), and the status and body it quotes
Note(tag) == [tag |-> tag, arg |-> "", status |-> 0, text |-> Malformed]

NoteOn(tag, arg) == [tag |-> tag, arg |-> arg, status |-> 0, text |-> Malformed]

Report(tag, r) == [tag |-> tag, arg |-> "", status |-> r.status_code, text |-> r.text]

\* lines 61-63: debug(msg), for a run of consecutive debug calls
Debug(err, msgs) == IF args.debug THEN err \o msgs ELSE err

\* parser.print_usage(): argparse writes to sys.stdout when no file is given
UsageText == <<"usage: main.py [-h] [-d] action path">>

\* sys.exit(code) at a source line, or the end of the script
Exit(code, line) ==
  /\ pc' = "exit"
  /\ exitCode' = code
  /\ exitLine' = line

Running ==
  /\ exitCode' = exitCode
  /\ exitLine' = exitLine

\* the state a fresh process starts in, after parser.parse_args() (line 59)
Fresh(a, d, e) ==
  /\ pc = "main"
  /\ args = [action |-> a, debug |-> d]
  /\ pathExists = e
  /\ realpath = <<>>
  /\ relativePathOnly = <<>>
  /\ fileurl = <<>>
  /\ ret = ""
  /\ lockAction = ""
  /\ method = ""
  /\ rootedServerPath = <<>>
  /\ response = NoResponse
  /\ fileId = None
  /\ data = NoData
  /\ requests = <<>>
  /\ stdout = <<>>
  /\ stderr = <<>>
  /\ exitCode = -1
  /\ exitLine = 0
  /\ branches = <<>>

Init ==
  /\ \E a \in ActionChoices, d \in BOOLEAN, e \in BOOLEAN : Fresh(a, d, e)
  /\ invocation = 1
  /\ lastLocked = NoUrl

(* ---------------------- lines 65-83: the path -------------------------- *)

\* the script without its existence check
CheckPathSkipped ==
  /\ pc = "main"
  /\ stderr' = Debug(stderr, <<NoteOn("action is", args.action)>>)
  /\ pc' = "resolve"
  /\ UNCHANGED <<args, pathExists, realpath, relativePathOnly, fileurl, ret,
                 lockAction, method, rootedServerPath, response, fileId, data,
                 requests, stdout, exitCode, exitLine, branches, invocation,
                 lastLocked>>

\* lines 65-70: the existence check
CheckPath ==
  /\ pc = "main"
  /\ IF ~pathExists
     THEN /\ stderr' = Append(Debug(stderr, <<NoteOn("action is", args.action)>>),
                              Note("Error: path does not exist"))
          /\ stdout' = Append(stdout, UsageText)
          /\ Exit(1, 70)
     ELSE /\ stderr' = Debug(stderr, <<NoteOn("action is", args.action)>>)
          /\ stdout' = stdout
          /\ pc' = "resolve"
          /\ Running
  /\ UNCHANGED <<args, pathExists, realpath, relativePathOnly, fileurl, ret,
                 lockAction, method, rootedServerPath, response, fileId, data,
                 requests, branches, invocation, lastLocked>>

\* lines 72-83: os.path.realpath answers some path below the sync root
Resolve(suffixes) ==
  /\ pc = "resolve"
  /\ \E s \in suffixes :
       /\ realpath' = localSyncFolder \o s
       /\ relativePathOnly' = RelativePath(localSyncFolder \o s)
       /\ fileurl' = FileUrl(RelativePath(localSyncFolder \o s))
  /\ stderr' = Debug(stderr, <<Note("absolute path is"), Note("relative path is"),
                               Note("WebDAV path is")>>)
  /\ pc' = "if_i"
  /\ UNCHANGED <<args, pathExists, ret, lockAction, method, rootedServerPath,
                 response, fileId, data, requests, stdout, exitCode, exitLine,
                 branches, invocation, lastLocked>>

ResolvePath == Resolve(Suffixes(RunNames, MaxPathLen))

ResolveDeepPath == Resolve(Suffixes(PathNames, MaxSuffixLen))

(* --------------------- lines 85-117: getFileId ------------------------- *)

\* lines 86-99: the PROPFIND request; the transport fails or a response comes
GetFileIdRequest ==
  /\ pc = "gfi_request"
  /\ requests' = Append(requests, [method |-> "PROPFIND", url |-> fileurl])
  /\ \/ /\ stderr' = Append(Debug(stderr, <<Note("fetching internal file ID...")>>),
                            Note("PROPFIND request failed"))
        /\ response' = response
        /\ Exit(1, 99)
     \/ /\ \E st \in Statuses, b \in PropfindBodies :
             response' = [status_code |-> st, text |-> b]
        /\ stderr' = Debug(stderr, <<Note("fetching internal file ID...")>>)
        /\ pc' = "gfi_status"
        /\ Running
  /\ UNCHANGED <<args, pathExists, realpath, relativePathOnly, fileurl, ret,
                 lockAction, method, rootedServerPath, fileId, data, stdout,
                 branches, invocation, lastLocked>>

\* lines 101-107: if not response
GetFileIdStatus ==
  /\ pc = "gfi_status"
  /\ IF ~ResponseOk(response)
     THEN /\ stderr' = Append(stderr, Report("HTTP response code", response))
          /\ Exit(1, 105)
     ELSE /\ stderr' = Debug(stderr, <<Report("HTTP response code", response)>>)
          /\ pc' = "gfi_parse"
          /\ Running
  /\ UNCHANGED <<args, pathExists, realpath, relativePathOnly, fileurl, ret,
                 lockAction, method, rootedServerPath, response, fileId, data,
                 requests, stdout, branches, invocation, lastLocked>>

\* lines 109-117: parse, find the identifier, return it.  cET.fromstring
\* raises ParseError on a body that is no XML; nothing catches it, so the
\* interpreter prints the traceback and exits with status 1
GetFileIdParse ==
  /\ pc = "gfi_parse"
  /\ IF ~response.text.wellformed
     THEN /\ stderr' = Append(stderr, Note("Traceback: ParseError"))
          /\ fileId' = fileId
          /\ Exit(1, 109)
     ELSE /\ fileId' = FindText(response.text, NsFileId)
          /\ IF FindText(response.text, NsFileId) = None
             THEN /\ stderr' = Append(Debug(stderr, <<Note("fileId is")>>),
                                      Report("HTTP response code", response))
                  /\ Exit(1, 115)
             ELSE /\ stderr' = Debug(stderr, <<Note("fileId is")>>)
                  /\ pc' = ret
                  /\ Running
  /\ UNCHANGED <<args, pathExists, realpath, relativePathOnly, fileurl, ret,
                 lockAction, method, rootedServerPath, response, data, requests,
                 stdout, branches, invocation, lastLocked>>

(* -------------------- lines 119-145: lockOrUnlock ---------------------- *)

\* lines 120-125: the request method for the action
MethodFor(action) ==
  IF action = "lock" THEN "LOCK"
  ELSE IF action = "unlock" THEN "UNLOCK"
  ELSE "<unbound>"

\* lines 120-129: with neither action, 'method' stays unbound and line 128
\* raises UnboundLocalError, which nothing catches
LockOrUnlockMethod ==
  /\ pc = "lou_method"
  /\ method' = MethodFor(lockAction)
  /\ IF MethodFor(lockAction) = "<unbound>"
     THEN /\ stderr' = stderr \o <<Note("internal error"),
                                   Note("Traceback: UnboundLocalError")>>
          /\ Exit(1, 128)
     ELSE /\ stderr' = Debug(stderr, <<Note("request:"), Note("headers:")>>)
          /\ pc' = "lou_request"
          /\ Running
  /\ UNCHANGED <<args, pathExists, realpath, relativePathOnly, fileurl, ret,
                 lockAction, rootedServerPath, response, fileId, data, requests,
                 stdout, branches, invocation, lastLocked>>

\* lines 131-135
LockOrUnlockRequest ==
  /\ pc = "lou_request"
  /\ requests' = Append(requests, [method |-> method, url |-> fileurl])
  /\ \/ /\ stderr' = Append(stderr, Note("request failed"))
        /\ response' = response
        /\ Exit(1, 135)
     \/ /\ \E st \in Statuses, b \in LockBodies :
             response' = [status_code |-> st, text |-> b]
        /\ stderr' = stderr
        /\ pc' = "lou_status"
        /\ Running
  /\ UNCHANGED <<args, pathExists, realpath, relativePathOnly, fileurl, ret,
                 lockAction, method, rootedServerPath, fileId, data, stdout,
                 branches, invocation, lastLocked>>

\* the failure report of getFileId in place of the lock diagnostic
LockFailureGeneric(action, r) == << Report("HTTP response code", r) >>

\* the three lines printed at 140-142
LockFailureDiagnostic(action, r) ==
  << NoteOn("failed. Is the Temporary files lock app installed? If attempting to lock, is it already locked by someone/something else? If attempting to unlock, is the path actually locked?", action),
     Note("HTTP request was"),
     Report("HTTP response code", r) >>

\* lines 137-145
LockOrUnlockStatus ==
  /\ pc = "lou_status"
  /\ IF ~ResponseOk(response)
     THEN /\ stderr' = stderr \o LockFailureDiagnostic(lockAction, response)
          /\ Exit(1, 143)
     ELSE /\ stderr' = Debug(stderr, <<Report("HTTP response code", response)>>)
          /\ pc' = ret
          /\ Running
  /\ UNCHANGED <<args, pathExists, realpath, relativePathOnly, fileurl, ret,
                 lockAction, method, rootedServerPath, response, fileId, data,
                 requests, stdout, branches, invocation, lastLocked>>

(* ---------------------- lines 147-182: rendering ------------------------ *)

\* lines 147-148
renderInternalUrl(server, id) == server \o <<"/f/", Fmt(id)>>

\* line 180
LargeImageUrl(token, id) ==
  Join(<<"/">>, <<nextcloudServer,
                  <<"apps/files_sharing/publicpreview/", Fmt(token), "?file=/&fileId=",
                    Fmt(id), "&x=4096&y=4096&a=true">> >>)

\* the preview URL with the large rendition's size
PreviewImageUrlLarge(token, id) ==
  Join(<<"/">>, <<nextcloudServer,
                  <<"apps/files_sharing/publicpreview/", Fmt(token), "?file=/&fileId=",
                    Fmt(id), "&x=4096&y=4096&a=true">> >>)

\* line 181
PreviewImageUrl(token, id) ==
  Join(<<"/">>, <<nextcloudServer,
                  <<"apps/files_sharing/publicpreview/", Fmt(token), "?file=/&fileId=",
                    Fmt(id), "&x=300&y=300&a=true">> >>)

\* line 153
SharesUrl == Join(<<"/">>, <<nextcloudServer, nextcloudOcsShareApiRoot, <<"shares">> >>)

\* line 201
HtmlLink(internalUrl, rel) ==
  <<"<a href=\"">> \o internalUrl \o <<"\">">> \o rel \o <<"</a>">>

\* line 209
HtmlAlbum(largeImageUrl, previewImageUrl) ==
  <<"<a href=\"">> \o largeImageUrl \o <<"\"><img src=\"">> \o previewImageUrl
    \o <<"\"></a>">>

(* ---------------------- lines 150-182: sharePath ----------------------- *)

\* lines 151-164
SharePathRequest ==
  /\ pc = "sp_request"
  /\ requests' = Append(requests, [method |-> "POST", url |-> SharesUrl])
  /\ \/ /\ stderr' = Append(Debug(stderr, <<Note("share")>>),
                            Note("POST request failed"))
        /\ response' = response
        /\ Exit(1, 164)
     \/ /\ \E st \in Statuses, b \in ShareBodies :
             response' = [status_code |-> st, text |-> b]
        /\ stderr' = Debug(stderr, <<Note("share")>>)
        /\ pc' = "sp_status"
        /\ Running
  /\ UNCHANGED <<args, pathExists, realpath, relativePathOnly, fileurl, ret,
                 lockAction, method, rootedServerPath, fileId, data, stdout,
                 branches, invocation, lastLocked>>

\* lines 166-172
SharePathStatus ==
  /\ pc = "sp_status"
  /\ IF ~ResponseOk(response)
     THEN /\ stderr' = Append(stderr, Report("HTTP response code", response))
          /\ Exit(1, 170)
     ELSE /\ stderr' = Debug(stderr, <<Report("HTTP response code", response)>>)
          /\ pc' = "sp_parse"
          /\ Running
  /\ UNCHANGED <<args, pathExists, realpath, relativePathOnly, fileurl, ret,
                 lockAction, method, rootedServerPath, response, fileId, data,
                 requests, stdout, branches, invocation, lastLocked>>

\* lines 174-182: the returned dictionary
ShareData(body) ==
  [publicShareUrl |-> FindText(body, "url"),
   fileId |-> FindText(body, "file_source"),
   largeImageUrl |-> LargeImageUrl(FindText(body, "token"), FindText(body, "file_source")),
   previewImageUrl |-> PreviewImageUrl(FindText(body, "token"), FindText(body, "file_source"))]

\* lines 174-182: no field is tested for None
SharePathParse ==
  /\ pc = "sp_parse"
  /\ IF ~response.text.wellformed
     THEN /\ stderr' = Append(stderr, Note("Traceback: ParseError"))
          /\ data' = data
          /\ Exit(1, 174)
     ELSE /\ data' = ShareData(response.text)
          /\ stderr' = stderr
          /\ pc' = "q_print"
          /\ Running
  /\ UNCHANGED <<args, pathExists, realpath, relativePathOnly, fileurl, ret,
                 lockAction, method, rootedServerPath, response, fileId, requests,
                 stdout, branches, invocation, lastLocked>>

(* ---------------------- lines 184-209: dispatch ------------------------ *)

\* the five tests, in source order
InternalLinkSelected(a) == a \in {"i", "internal-link"}

LockSelected(a) == a \in {"l", "lock"}

\* the unlock test without its short form
UnlockSelectedLongOnly(a) == a \in {"unlock"}

UnlockSelected(a) == a \in {"u", "unlock"}

\* the html-link test with the quick-album selectors pasted in
HtmlLinkSelectedAlsoQuick(a) == a \in {"h", "html-link", "q", "quick-album"}

HtmlLinkSelected(a) == a \in {"h", "html-link"}

QuickAlbumSelected(a) == a \in {"q", "quick-album"}

\* line 184-185
IfInternalLink ==
  /\ pc = "if_i"
  /\ IF InternalLinkSelected(args.action)
     THEN /\ branches' = Append(branches, "internal-link")
          /\ ret' = "i_print"
          /\ pc' = "gfi_request"
     ELSE /\ pc' = "if_l"
          /\ UNCHANGED <<branches, ret>>
  /\ UNCHANGED <<args, pathExists, realpath, relativePathOnly, fileurl, lockAction,
                 method, rootedServerPath, response, fileId, data, requests,
                 stdout, stderr, exitCode, exitLine, invocation, lastLocked>>

\* line 186
PrintInternalLink ==
  /\ pc = "i_print"
  /\ stdout' = Append(stdout, renderInternalUrl(nextcloudServer, fileId))
  /\ pc' = "if_l"
  /\ UNCHANGED <<args, pathExists, realpath, relativePathOnly, fileurl, ret,
                 lockAction, method, rootedServerPath, response, fileId, data,
                 requests, stderr, exitCode, exitLine, branches, invocation,
                 lastLocked>>

\* lines 188-190
IfLock ==
  /\ pc = "if_l"
  /\ IF LockSelected(args.action)
     THEN /\ branches' = Append(branches, "lock")
          /\ stderr' = Debug(stderr, <<Note("locking...")>>)
          /\ lockAction' = "lock"
          /\ ret' = "l_done"
          /\ pc' = "lou_method"
     ELSE /\ pc' = "if_u"
          /\ UNCHANGED <<branches, stderr, lockAction, ret>>
  /\ UNCHANGED <<args, pathExists, realpath, relativePathOnly, fileurl, method,
                 rootedServerPath, response, fileId, data, requests, stdout,
                 exitCode, exitLine, invocation, lastLocked>>

\* line 191
LockSuccess ==
  /\ pc = "l_done"
  /\ stderr' = Debug(stderr, <<Note("success!")>>)
  /\ pc' = "if_u"
  /\ UNCHANGED <<args, pathExists, realpath, relativePathOnly, fileurl, ret,
                 lockAction, method, rootedServerPath, response, fileId, data,
                 requests, stdout, exitCode, exitLine, branches, invocation,
                 lastLocked>>

\* lines 193-195
IfUnlock ==
  /\ pc = "if_u"
  /\ IF UnlockSelected(args.action)
     THEN /\ branches' = Append(branches, "unlock")
          /\ stderr' = Debug(stderr, <<Note("unlocking...")>>)
          /\ lockAction' = "unlock"
          /\ ret' = "u_done"
          /\ pc' = "lou_method"
     ELSE /\ pc' = "if_h"
          /\ UNCHANGED <<branches, stderr, lockAction, ret>>
  /\ UNCHANGED <<args, pathExists, realpath, relativePathOnly, fileurl, method,
                 rootedServerPath, response, fileId, data, requests, stdout,
                 exitCode, exitLine, invocation, lastLocked>>

\* line 196
UnlockSuccess ==
  /\ pc = "u_done"
  /\ stderr' = Debug(stderr, <<Note("success!")>>)
  /\ pc' = "if_h"
  /\ UNCHANGED <<args, pathExists, realpath, relativePathOnly, fileurl, ret,
                 lockAction, method, rootedServerPath, response, fileId, data,
                 requests, stdout, exitCode, exitLine, branches, invocation,
                 lastLocked>>

\* lines 198-199
IfHtmlLink ==
  /\ pc = "if_h"
  /\ IF HtmlLinkSelected(args.action)
     THEN /\ branches' = Append(branches, "html-link")
          /\ ret' = "h_print"
          /\ pc' = "gfi_request"
     ELSE /\ pc' = "if_q"
          /\ UNCHANGED <<branches, ret>>
  /\ UNCHANGED <<args, pathExists, realpath, relativePathOnly, fileurl, lockAction,
                 method, rootedServerPath, response, fileId, data, requests,
                 stdout, stderr, exitCode, exitLine, invocation, lastLocked>>

\* lines 200-201
PrintHtmlLink ==
  /\ pc = "h_print"
  /\ stdout' = Append(stdout,
                      HtmlLink(renderInternalUrl(nextcloudServer, fileId),
                               relativePathOnly))
  /\ pc' = "if_q"
  /\ UNCHANGED <<args, pathExists, realpath, relativePathOnly, fileurl, ret,
                 lockAction, method, rootedServerPath, response, fileId, data,
                 requests, stderr, exitCode, exitLine, branches, invocation,
                 lastLocked>>

\* lines 203-205
IfQuickAlbum ==
  /\ pc = "if_q"
  /\ IF QuickAlbumSelected(args.action)
     THEN /\ branches' = Append(branches, "quick-album")
          /\ stderr' = Debug(stderr, <<Note("quick albuming...")>>)
          /\ rootedServerPath' = <<"/">> \o relativePathOnly
          /\ pc' = "sp_request"
     ELSE /\ pc' = "end"
          /\ UNCHANGED <<branches, stderr, rootedServerPath>>
  /\ UNCHANGED <<args, pathExists, realpath, relativePathOnly, fileurl, ret,
                 lockAction, method, response, fileId, data, requests, stdout,
                 exitCode, exitLine, invocation, lastLocked>>

\* lines 206-209
PrintQuickAlbum ==
  /\ pc = "q_print"
  /\ stdout' = Append(stdout, HtmlAlbum(data.largeImageUrl, data.previewImageUrl))
  /\ pc' = "end"
  /\ UNCHANGED <<args, pathExists, realpath, relativePathOnly, fileurl, ret,
                 lockAction, method, rootedServerPath, response, fileId, data,
                 requests, stderr, exitCode, exitLine, branches, invocation,
                 lastLocked>>

\* the end of the script: the interpreter exits with status 0
Finish ==
  /\ pc = "end"
  /\ Exit(0, 209)
  /\ UNCHANGED <<args, pathExists, realpath, relativePathOnly, fileurl, ret,
                 lockAction, method, rootedServerPath, response, fileId, data,
                 requests, stdout, stderr, branches, invocation, lastLocked>>

(* ------------------------- the next invocation ------------------------- *)

\* lines 55-59: the script is run again, a new process with nothing kept.
\* What is remembered of the one before is whether it locked, and which URL.
Reinvoke ==
  /\ pc = "exit"
  /\ invocation < MaxInvocations
  /\ invocation' = invocation + 1
  /\ lastLocked' = IF exitCode = 0 /\ branches = <<"lock">> THEN fileurl ELSE NoUrl
  /\ \E a \in ActionChoices, d \in BOOLEAN, e \in BOOLEAN :
       /\ args' = [action |-> a, debug |-> d]
       /\ pathExists' = e
  /\ pc' = "main"
  /\ realpath' = <<>>
  /\ relativePathOnly' = <<>>
  /\ fileurl' = <<>>
  /\ ret' = ""
  /\ lockAction' = ""
  /\ method' = ""
  /\ rootedServerPath' = <<>>
  /\ response' = NoResponse
  /\ fileId' = None
  /\ data' = NoData
  /\ requests' = <<>>
  /\ stdout' = <<>>
  /\ stderr' = <<>>
  /\ exitCode' = -1
  /\ exitLine' = 0
  /\ branches' = <<>>

(* --------------------------- specifications ---------------------------- *)

Next ==
  \/ CheckPath
  \/ ResolvePath
  \/ IfInternalLink
  \/ PrintInternalLink
  \/ IfLock
  \/ LockSuccess
  \/ IfUnlock
  \/ UnlockSuccess
  \/ IfHtmlLink
  \/ PrintHtmlLink
  \/ IfQuickAlbum
  \/ PrintQuickAlbum
  \/ GetFileIdRequest
  \/ GetFileIdStatus
  \/ GetFileIdParse
  \/ LockOrUnlockMethod
  \/ LockOrUnlockRequest
  \/ LockOrUnlockStatus
  \/ SharePathRequest
  \/ SharePathStatus
  \/ SharePathParse
  \/ Finish
  \/ Reinvoke

Spec == Init /\ [][Next]_vars

\* the path computation alone, over deeper paths: a first invocation up to
\* the end of line 83
NextPath ==
  \/ CheckPath
  \/ ResolveDeepPath

SpecPath == Init /\ [][NextPath]_vars

(* ------------------------------ claims --------------------------------- *)

\* the statuses that are client or server errors; every other one is accepted
ClientOrServerError(st) == 400 <= st /\ st <= 599

Responded == response # NoResponse

\* the status test of the running function has been made
StatusTested == Responded /\ pc \notin {"gfi_status", "lou_status", "sp_status"}

\* the lines of the sys.exit calls that follow a failed status test
StatusExitLines == {105, 143, 170}

\* the lines of the sys.exit calls that follow a transport failure
TransportExitLines == {99, 135, 164}

Sent(m) == requests # <<>> /\ requests[1].method = m

C2_ExistenceCheckFirst ==
  /\ requests # <<>> => pathExists /\ pc # "main"
  /\ ~pathExists =>
       /\ requests = <<>>
       /\ pc \in {"main", "exit"}
       /\ pc = "exit" => exitCode = 1 /\ exitLine = 70

C2_Witness ==
  /\ pc = "exit"
  /\ ~pathExists
  /\ exitCode = 1
  /\ requests = <<>>
  /\ args.action = "quick-album"

\* C3: a quick-album run that ends with exit code 0 and a line on standard
\* output had a response with an accepted status and a body holding url,
\* file_source and token.
C3_SuccessNeedsAllFields ==
  (pc = "exit" /\ exitCode = 0 /\ branches = <<"quick-album">> /\ stdout # <<>>) =>
    /\ ~ClientOrServerError(response.status_code)
    /\ \A f \in {"url", "file_source", "token"} :
         \E e \in response.text.elems : e[1] = f

\* C4: when the path does not exist the process ends with exit code 1, the
\* error message and the usage text are on the error stream, and standard
\* output is empty.
C4_ValidationFailureOnErrorStream ==
  (pc = "exit" /\ ~pathExists) =>
    /\ exitCode = 1
    /\ \E k \in 1..Len(stderr) : stderr[k].tag = "Error: path does not exist"
    /\ \E k \in 1..Len(stderr) : <<stderr[k].tag>> = UsageText
    /\ stdout = <<>>

\* C5: the remote-relative path of a resolved path below the sync root is
\* that path without its leading sync root and without the one separator
\* that follows it.
C5_RelativePathIsSuffix ==
  pc = "if_i" =>
    relativePathOnly =
      DropFirst(SubSeq(realpath, Len(localSyncFolder) + 1, Len(realpath)))

\* C6: an invocation issues at most one request; after a transport failure
\* or a failed status test the process has ended with exit code 1 having
\* sent that one request; a quick-album run sends no PROPFIND.
C6_AtMostOneRequest ==
  /\ Len(requests) <= 1
  /\ exitLine \in (TransportExitLines \cup StatusExitLines) =>
       pc = "exit" /\ exitCode = 1 /\ Len(requests) = 1
  /\ args.action \in {"q", "quick-album"} =>
       \A k \in 1..Len(requests) : requests[k].method = "POST"

C6_Witness ==
  /\ pc = "exit"
  /\ exitCode = 0
  /\ args.action = "q"
  /\ Len(requests) = 1
  /\ requests[1].method = "POST"

\* the body is XML without a {http://owncloud.org/ns}fileid element
LacksFileId(body) ==
  body.wellformed /\ ~\E e \in body.elems : e[1] = "{http://owncloud.org/ns}fileid"

\* C7: in the internal-link and html-link branches, once an accepted PROPFIND
\* response whose XML body has no namespaced fileid element has been parsed,
\* the process has ended with exit code 1, the last message on the error
\* stream quotes the status and the body, and standard output is empty; and
\* a line is on standard output only with an identifier taken from a fileid
\* element of the response.
C7_MissingFileIdIsFatal ==
  /\ ( /\ Sent("PROPFIND")
       /\ StatusTested
       /\ pc # "gfi_parse"
       /\ ~ClientOrServerError(response.status_code)
       /\ LacksFileId(response.text) ) =>
       /\ pc = "exit"
       /\ exitCode = 1
       /\ stdout = <<>>
       /\ stderr # <<>>
       /\ stderr[Len(stderr)].status = response.status_code
       /\ stderr[Len(stderr)].text = response.text
  /\ (Sent("PROPFIND") /\ stdout # <<>>) =>
       /\ fileId # None
       /\ <<"{http://owncloud.org/ns}fileid", fileId>> \in response.text.elems

C7_Witness ==
  /\ pc = "exit"
  /\ args.action = "html-link"
  /\ Responded
  /\ response.status_code = 200
  /\ response.text = Xml({<<"fileid", "123">>})
  /\ exitCode = 1
  /\ exitLine = 115

\* the first line of the diagnostic of a failed lock or unlock
LockDiagnosticText ==
  "failed. Is the Temporary files lock app installed? If attempting to lock, is it already locked by someone/something else? If attempting to unlock, is the path actually locked?"

\* C8: once a LOCK or UNLOCK request has been answered with a client or
\* server error status and the status has been tested, the process has ended
\* with exit code 1 and the lock-failure diagnostic, naming the action, is on
\* the error stream; a second lock of the URL locked just before is one case.
C8_LockFailureDiagnostic ==
  ( /\ Sent("LOCK") \/ Sent("UNLOCK")
    /\ StatusTested
    /\ ClientOrServerError(response.status_code) ) =>
    /\ pc = "exit"
    /\ exitCode = 1
    /\ \E k \in 1..Len(stderr) :
         /\ stderr[k].tag = LockDiagnosticText
         /\ stderr[k].arg = (IF Sent("LOCK") THEN "lock" ELSE "unlock")

C8_Witness ==
  /\ invocation = 2
  /\ lastLocked # NoUrl
  /\ lastLocked = fileurl
  /\ Sent("LOCK")
  /\ Responded
  /\ ClientOrServerError(response.status_code)
  /\ pc = "exit"
  /\ exitCode = 1

\* the anchor the quick-album action prints for token t and file source f
ExpectedAlbum(t, f) ==
  << "<a href=\"", "http://localhost:8080", "/",
     "apps/files_sharing/publicpreview/", t, "?file=/&fileId=", f,
     "&x=4096&y=4096&a=true",
     "\"><img src=\"", "http://localhost:8080", "/",
     "apps/files_sharing/publicpreview/", t, "?file=/&fileId=", f,
     "&x=300&y=300&a=true",
     "\"></a>" >>

\* C9: a quick-album run whose response has an accepted status and an XML
\* body with token T and file_source F ends with exit code 0 and exactly one
\* line on standard output: the anchor whose href is the 4096x4096 preview
\* URL of T and F around the img whose src is the 300x300 preview URL of the
\* same T and F.
C9_AlbumAnchor ==
  \A t \in {"tok1", "tok2"}, f \in {"99", "7"} :
    ( /\ pc = "exit"
      /\ Sent("POST")
      /\ Responded
      /\ ~ClientOrServerError(response.status_code)
      /\ <<"token", t>> \in response.text.elems
      /\ <<"file_source", f>> \in response.text.elems ) =>
      /\ exitCode = 0
      /\ stdout = << ExpectedAlbum(t, f) >>

C9_Witness ==
  /\ pc = "exit"
  /\ exitCode = 0
  /\ Responded
  /\ <<"token", "tok1">> \in response.text.elems
  /\ <<"file_source", "99">> \in response.text.elems
  /\ stdout = << ExpectedAlbum("tok1", "99") >>

\* the action a selector stands for, and the request method of an action
LongForm(a) ==
  CASE a \in {"h", "html-link"} -> "html-link"
    [] a \in {"i", "internal-link"} -> "internal-link"
    [] a \in {"l", "lock"} -> "lock"
    [] a \in {"q", "quick-album"} -> "quick-album"
    [] a \in {"u", "unlock"} -> "unlock"

MethodOfAction(a) ==
  CASE a = "html-link" -> "PROPFIND"
    [] a = "internal-link" -> "PROPFIND"
    [] a = "lock" -> "LOCK"
    [] a = "unlock" -> "UNLOCK"
    [] a = "quick-album" -> "POST"

\* C10: an invocation enters at most one dispatch branch, and exactly one
\* when it runs to the end of the script; the branch entered is the one the
\* selector stands for, the same for its short and its long form; every
\* request has the method of that action; lockOrUnlock runs only with
\* 'lock' or 'unlock', so its method is bound when the request is sent.
C10_OneBranchPerSelector ==
  /\ Len(branches) <= 1
  /\ pc \in {"end", "exit"} /\ exitLine \in {0, 209} => Len(branches) = 1
  /\ \A k \in 1..Len(branches) : branches[k] = LongForm(args.action)
  /\ \A k \in 1..Len(requests) :
       requests[k].method = MethodOfAction(LongForm(args.action))
  /\ pc \in {"lou_method", "lou_request", "lou_status"} =>
       lockAction \in {"lock", "unlock"}
  /\ exitLine # 128

C10_Witness ==
  /\ pc = "exit"
  /\ exitCode = 0
  /\ args.action = "u"
  /\ branches = <<"unlock">>
  /\ Sent("UNLOCK")

====
